---- MODULE Spec2Model ----
(***************************************************************************)
(* Model of oxc_transformer's ModuleImports helper                         *)
(* (crates/oxc_transformer/src/helpers/module_imports.rs).                 *)
(*                                                                         *)
(* The registry is a RefCell<IndexMap<ImportType, Vec<ImportSpecifier>>>.  *)
(* The IndexMap is modelled as the sequence of its entries (its order),    *)
(* the RefCell as its borrow flag.  Rust indices are 0-based; the          *)
(* operators taking an index (move_index) keep the 0-based convention of   *)
(* the source and convert internally.                                      *)
(***************************************************************************)
EXTENDS Integers, Sequences, FiniteSets, TLC

\* ---------------------------------------------------------------- bounds
\* Number of add_* calls between two drains.
MaxAdds == 3

\* ------------------------------------------------------------ Option<T>
None == <<>>
Some(x) == <<x>>
unwrap_or_else(opt, default) == IF opt = None THEN default ELSE opt[1]

\* ------------------------------------------------------- ImportSpecifier
ImportSpecifier_new(imported, local, symbol_id) ==
    [imported |-> imported, local |-> local, symbol_id |-> symbol_id]

\* The specifier records callers pass in: one without a local alias, one
\* with an alias that differs from the imported name.
Specifiers ==
    { ImportSpecifier_new("foo", None, 1),
      ImportSpecifier_new("bar", Some("barLocal"), 2) }

\* The module sources callers pass in.
Sources == {"lib", "cjs-mod"}

\* What ctx.scopes().get_root_binding("require") may return.
RootBindings == {None, Some(100)}

\* ------------------------------------------------------------ ImportType
ImportKind == {"Import", "ImportDefault", "Require"}

ImportType_new(kind, source) == [kind |-> kind, source |-> source]

\* A derived PartialEq: default-import keys would compare equal too.
ImportType_eq_derived(self, other) ==
    self.kind = other.kind /\ self.source = other.source

\* An equality that forgets to compare the mechanism.
ImportType_eq_source_only(self, other) ==
    IF self.kind = "ImportDefault"
    THEN FALSE
    ELSE self.source = other.source

\* impl PartialEq for ImportType
ImportType_eq(self, other) ==
    IF self.kind = "ImportDefault"
    THEN FALSE
    ELSE self.kind = other.kind /\ self.source = other.source

\* -------------------------------------------------------------- IndexMap
\* A lookup that never finds the key.
get_index_of_never(map, key) == 0

\* 1-based position of the entry whose key the looked-up key equals, 0 when
\* there is none (IndexMap compares the looked-up key against stored keys).
get_index_of(map, key) ==
    LET hits == {i \in 1..Len(map) : ImportType_eq(key, map[i].key)}
    IN IF hits = {} THEN 0 ELSE CHOOSE i \in hits : \A j \in hits : i <= j

\* map.entry(key).or_insert(default): a vacant entry is appended at the end
\* of the order, an occupied one is left as it is.
or_insert(map, key, default) ==
    IF get_index_of(map, key) = 0
    THEN Append(map, [key |-> key, names |-> default])
    ELSE map

\* 1-based position of the entry that map.entry(key).or_insert(..) returns.
entry_index(map, key) ==
    IF get_index_of(map, key) = 0 THEN Len(map) + 1 ELSE get_index_of(map, key)

\* A list that grows at its front instead of its end.
push_front(map, i, import) ==
    [map EXCEPT ![i].names = <<import>> \o @]

\* Vec::push on the specifier list of the entry at 1-based position i.
push(map, i, import) ==
    [map EXCEPT ![i].names = Append(@, import)]

\* map.entry(key).or_default() with the push forgotten.
or_default_only(map, key, import) ==
    or_insert(map, key, <<>>)

\* map.entry(key).or_default().push(import)
or_default_push(map, key, import) ==
    push(or_insert(map, key, <<>>), entry_index(map, key), import)

\* IndexMap::move_index(from, to) panics when an index is out of bounds.
move_index_in_bounds(map, from, to) ==
    from < Len(map) /\ to < Len(map)

\* IndexMap::swap_indices(from, to) in place of move_index: the two entries
\* trade places.
swap_indices(map, from, to) ==
    [i \in 1..Len(map) |->
        IF i = from + 1 THEN map[to + 1]
        ELSE IF i = to + 1 THEN map[from + 1]
        ELSE map[i]]

\* IndexMap::move_index(from, to), 0-based: the entry at `from` is taken out
\* and put back at `to`, the entries between shift by one.
move_index(map, from, to) ==
    LET e == map[from + 1]
        rest == [i \in 1..(Len(map) - 1) |->
                    IF i < from + 1 THEN map[i] ELSE map[i + 1]]
    IN [i \in 1..Len(map) |->
            IF i < to + 1 THEN rest[i]
            ELSE IF i = to + 1 THEN e
            ELSE rest[i - 1]]

\* ------------------------------------------------------------- the state
VARIABLES
    imports,          \* the IndexMap inside self.imports, as its entry order
    borrow,           \* the RefCell's borrow flag: "UNUSED" or "WRITING"
    pc,               \* "idle", or "draining" inside get_import_statements
    drain,            \* entries held by the Drain iterator
    ret,              \* statements returned by the last call (adds return ())
    panic,            \* None, or Some(message) once the program has panicked
    require_binding,  \* ctx.scopes().get_root_binding("require") of the
                      \* current/last get_import_statements call
    last,             \* name of the last call made (it completed unless
                      \* panic is set)
    before,           \* name of the call made before `last`
    calls,            \* history: add_* calls made since the last drain began
    drained,          \* history: the calls the current/last drain consumed
    snapshot,         \* history: the registry when the current/last drain began
    prior             \* history: a get_import_statements call that returned
                      \* statements came directly before the only add_* call
                      \* made since, or directly before the current/last drain

vars == <<imports, borrow, pc, drain, ret, panic, require_binding,
          last, before, calls, drained, snapshot, prior>>

\* ModuleImports::new
Init ==
    /\ imports = <<>>
    /\ borrow = "UNUSED"
    /\ pc = "idle"
    /\ drain = <<>>
    /\ ret = <<>>
    /\ panic = None
    /\ require_binding = None
    /\ last = "new"
    /\ before = "new"
    /\ calls = <<>>
    /\ drained = <<>>
    /\ snapshot = <<>>
    /\ prior = FALSE

\* A cell that hands out its content without looking at the flag.
borrow_unchecked(flag) == TRUE

\* RefCell::borrow / RefCell::borrow_mut succeed only on an unused cell
\* (the registry is never borrowed shared for longer than one expression).
try_borrow(flag) == flag = "UNUSED"

Call(op, source, import, front) ==
    [op |-> op, source |-> source, import |-> import, front |-> front]

\* An add_* call that hits a held borrow panics before touching anything
\* (BorrowMutError from borrow_mut, BorrowError from add_require's borrow).
BorrowPanic ==
    /\ panic' = Some("already borrowed")
    /\ UNCHANGED <<imports, borrow, pc, drain, ret, require_binding,
                   last, before, calls, drained, snapshot, prior>>

\* The bookkeeping of an add_* call that got its borrow.
Added(op, source, import, front) ==
    /\ calls' = Append(calls, Call(op, source, import, front))
    /\ last' = op
    /\ before' = last
    /\ ret' = <<>>
    /\ require_binding' = None
    /\ drained' = <<>>
    /\ snapshot' = <<>>
    /\ prior' = (last = "get_import_statements" /\ ret # <<>>)
    /\ UNCHANGED <<borrow, pc, drain>>

add_default_map(map, source, import) ==
    or_insert(map, ImportType_new("ImportDefault", source), <<import>>)

add_default(source, import) ==
    /\ panic = None
    /\ Len(calls) < MaxAdds
    /\ IF ~try_borrow(borrow)
       THEN BorrowPanic
       ELSE /\ imports' = add_default_map(imports, source, import)
            /\ panic' = panic
            /\ Added("add_default", source, import, FALSE)

\* map.insert(key, vec![import]) in place of entry().or_default().push():
\* the specifiers an existing entry held are replaced.
add_import_map_insert(map, source, import) ==
    LET key == ImportType_new("Import", source)
        i == get_index_of(map, key)
    IN IF i = 0 THEN Append(map, [key |-> key, names |-> <<import>>])
       ELSE [map EXCEPT ![i].names = <<import>>]

add_import_map(map, source, import) ==
    or_default_push(map, ImportType_new("Import", source), import)

add_import(source, import) ==
    /\ panic = None
    /\ Len(calls) < MaxAdds
    /\ IF ~try_borrow(borrow)
       THEN BorrowPanic
       ELSE /\ imports' = add_import_map(imports, source, import)
            /\ panic' = panic
            /\ Added("add_import", source, import, FALSE)

\* The entry().or_default().push() part of add_require.
add_require_map(map, source, import) ==
    or_default_push(map, ImportType_new("Require", source), import)

add_require(source, import, front) ==
    /\ panic = None
    /\ Len(calls) < MaxAdds
    /\ IF ~try_borrow(borrow)
       THEN BorrowPanic
       ELSE LET len == Len(imports)
                pushed == add_require_map(imports, source, import)
            IN /\ IF front
                  THEN IF move_index_in_bounds(pushed, len, 0)
                       THEN /\ imports' = move_index(pushed, len, 0)
                            /\ panic' = panic
                       ELSE /\ imports' = pushed
                            /\ panic' = Some("index out of bounds")
                  ELSE /\ imports' = pushed
                       /\ panic' = panic
               /\ Added("add_require", source, import, front)

\* ------------------------------------------------- statement synthesis
get_named_import(source, names) ==
    [type |-> "ImportDeclaration",
     source |-> source,
     callee |-> None,
     specifiers |->
        [i \in 1..Len(names) |->
            [kind |-> "ImportSpecifier",
             imported |-> Some(names[i].imported),
             local |-> unwrap_or_else(names[i].local, names[i].imported),
             symbol_id |-> names[i].symbol_id]]]

\* A default import that binds the local alias when there is one.
get_default_import_local(source, names) ==
    [type |-> "ImportDeclaration",
     source |-> source,
     callee |-> None,
     specifiers |->
        [i \in 1..Len(names) |->
            [kind |-> "ImportDefaultSpecifier",
             imported |-> None,
             local |-> unwrap_or_else(names[i].local, names[i].imported),
             symbol_id |-> names[i].symbol_id]]]

get_default_import(source, names) ==
    [type |-> "ImportDeclaration",
     source |-> source,
     callee |-> None,
     specifiers |->
        [i \in 1..Len(names) |->
            [kind |-> "ImportDefaultSpecifier",
             imported |-> None,
             local |-> names[i].imported,
             symbol_id |-> names[i].symbol_id]]]

\* names.pop(): the last specifier instead of the first.
last_of(names) == IF names = <<>> THEN None ELSE Some(names[Len(names)])

\* names.into_iter().next()
first(names) == IF names = <<>> THEN None ELSE Some(names[1])

\* A require declaration named after the local alias when there is one.
get_require_local(source, names, binding) ==
    [type |-> "VariableDeclaration",
     source |-> source,
     callee |-> Some([name |-> "require", symbol_id |-> binding]),
     specifiers |->
        <<[kind |-> "VariableDeclarator",
           imported |-> None,
           local |-> unwrap_or_else(names[1].local, names[1].imported),
           symbol_id |-> names[1].symbol_id]>>]

\* get_require, given the root binding of `require`; the caller has checked
\* that names.into_iter().next() is Some.
get_require(source, names, binding) ==
    [type |-> "VariableDeclaration",
     source |-> source,
     callee |-> Some([name |-> "require", symbol_id |-> binding]),
     specifiers |->
        <<[kind |-> "VariableDeclarator",
           imported |-> None,
           local |-> first(names)[1].imported,
           symbol_id |-> first(names)[1].symbol_id]>>]

\* The closure of get_import_statements applied to one drained entry.
synthesize(entry, binding) ==
    CASE entry.key.kind = "Import" ->
            get_named_import(entry.key.source, entry.names)
      [] entry.key.kind = "Require" ->
            get_require(entry.key.source, entry.names, binding)
      [] entry.key.kind = "ImportDefault" ->
            get_default_import(entry.key.source, entry.names)

\* A lookup that hands a missing binding on as an unresolved reference.
never_unresolved(entries, binding) == FALSE

\* ctx.scopes().get_root_binding("require") in get_require: finding no root
\* binding named `require` is a fatal unresolved-binding failure raised by
\* the scope-resolution collaborator; it is met by the first Require entry.
root_binding_unresolved(entries, binding) ==
    /\ binding = None
    /\ \E i \in 1..Len(entries) : entries[i].key.kind = "Require"

\* get_require's unwrap() panics on an entry without specifiers.
unwrap_panics(entries) ==
    \E i \in 1..Len(entries) :
        entries[i].key.kind = "Require" /\ first(entries[i].names) = None

\* The drain walked back to front (drain(..).rev()).
statements_rev(entries, binding) ==
    [i \in 1..Len(entries) |-> synthesize(entries[Len(entries) + 1 - i], binding)]

\* vec_from_iter over the mapped Drain iterator.
statements(entries, binding) ==
    [i \in 1..Len(entries) |-> synthesize(entries[i], binding)]

\* ------------------------------------------------ get_import_statements
\* self.imports.borrow_mut().iter(): the entries are read, not removed.
iter_begin ==
    /\ panic = None
    /\ pc = "idle"
    /\ borrow = "UNUSED"
    /\ borrow' = "WRITING"
    /\ pc' = "draining"
    /\ drain' = imports
    /\ imports' = imports
    /\ ret' = <<>>
    /\ require_binding' \in RootBindings
    /\ drained' = calls
    /\ calls' = <<>>
    /\ snapshot' = imports
    /\ prior' = IF last = "get_import_statements" THEN ret # <<>> ELSE prior
    /\ UNCHANGED <<panic, last, before>>

\* self.imports.borrow_mut().drain(..): the borrow is taken and the map is
\* emptied at once; the entries live on in the Drain iterator.
drain_begin ==
    /\ panic = None
    /\ pc = "idle"
    /\ try_borrow(borrow)
    /\ borrow' = "WRITING"
    /\ pc' = "draining"
    /\ drain' = imports
    /\ imports' = <<>>
    /\ ret' = <<>>
    /\ require_binding' \in RootBindings
    /\ drained' = calls
    /\ calls' = <<>>
    /\ snapshot' = imports
    /\ prior' = IF last = "get_import_statements" THEN ret # <<>> ELSE prior
    /\ UNCHANGED <<panic, last, before>>

\* The closure runs over every drained entry; the vector is returned and the
\* borrow released at the end of the statement.
drain_collect ==
    /\ panic = None
    /\ pc = "draining"
    /\ IF root_binding_unresolved(drain, require_binding)
       THEN /\ panic' = Some("unresolved binding")
            /\ UNCHANGED <<borrow, pc, drain, ret, last, before>>
       ELSE IF unwrap_panics(drain)
       THEN /\ panic' = Some("unwrap on None")
            /\ UNCHANGED <<borrow, pc, drain, ret, last, before>>
       ELSE /\ ret' = statements(drain, require_binding)
            /\ drain' = <<>>
            /\ borrow' = "UNUSED"
            /\ pc' = "idle"
            /\ last' = "get_import_statements"
            /\ before' = last
            /\ panic' = panic
    /\ UNCHANGED <<imports, require_binding, calls, drained, snapshot, prior>>

Next ==
    \/ \E source \in Sources, import \in Specifiers : add_default(source, import)
    \/ \E source \in Sources, import \in Specifiers : add_import(source, import)
    \/ \E source \in Sources, import \in Specifiers, front \in BOOLEAN :
            add_require(source, import, front)
    \/ drain_begin
    \/ drain_collect

Spec == Init /\ [][Next]_vars

\* ======================================================== properties
\* A get_import_statements call has just returned: `ret` holds its result,
\* `drained` the add_* calls it consumed, `snapshot` the registry it drained.
Finished ==
    pc = "idle" /\ last = "get_import_statements" /\ panic = None

IsNamedImport(st) ==
    /\ st.type = "ImportDeclaration"
    /\ \A j \in 1..Len(st.specifiers) : st.specifiers[j].kind = "ImportSpecifier"

IsDefaultImport(st) ==
    /\ st.type = "ImportDeclaration"
    /\ \A j \in 1..Len(st.specifiers) :
            st.specifiers[j].kind = "ImportDefaultSpecifier"

IsRequire(st) == st.type = "VariableDeclaration"

\* The specifiers passed to `op` for `source` among `log`, in call order.
Passed(log, op, source) ==
    LET hit(c) == c.op = op /\ c.source = source
        sel == SelectSeq(log, hit)
    IN [i \in 1..Len(sel) |-> sel[i].import]

\* Positions of the statements of `out` that satisfy Is(_) and name `source`.
StatementsFor(out, Is(_), source) ==
    {i \in 1..Len(out) : Is(out[i]) /\ out[i].source = source}

\* C1: get_import_statements returns at most one named-import statement per
\* source S, and that statement's clauses are exactly the specifiers passed
\* to add_import(S, .) since the last drain, in call order.
C1_NamedImportMerge ==
    Finished =>
        \A S \in Sources :
            LET at == StatementsFor(ret, IsNamedImport, S)
                passed == Passed(drained, "add_import", S)
            IN /\ Cardinality(at) <= 1
               /\ (passed # <<>>) <=> (at # {})
               /\ \A i \in at :
                    /\ Len(ret[i].specifiers) = Len(passed)
                    /\ \A j \in 1..Len(passed) :
                        /\ ret[i].specifiers[j].imported = Some(passed[j].imported)
                        /\ ret[i].specifiers[j].symbol_id = passed[j].symbol_id

\* add_import(S, a), add_import(S, b) with a # b, then a finished drain.
C1_Witness ==
    /\ Finished
    /\ \E S \in Sources :
        LET passed == Passed(drained, "add_import", S)
        IN /\ Len(passed) = 2
           /\ passed[1] # passed[2]
           /\ StatementsFor(ret, IsNamedImport, S) # {}

\* Number of calls of `op` in `log`.
CountCalls(log, op) == Cardinality({i \in 1..Len(log) : log[i].op = op})

\* Number of entries of `map` with mechanism `kind`.
CountEntries(map, kind) ==
    Cardinality({i \in 1..Len(map) : map[i].key.kind = kind})

\* C2: every add_default call creates an entry of its own: the registry
\* holds as many ImportDefault entries as add_default calls were made, each
\* with exactly one specifier, and a drain returns that many default-import
\* statements, each with one specifier.
C2_DefaultNeverMerges ==
    /\ pc = "idle" =>
            CountEntries(imports, "ImportDefault") = CountCalls(calls, "add_default")
    /\ \A i \in 1..Len(imports) :
            imports[i].key.kind = "ImportDefault" => Len(imports[i].names) = 1
    /\ \A i \in 1..Len(drain) :
            drain[i].key.kind = "ImportDefault" => Len(drain[i].names) = 1
    /\ Finished =>
            /\ Cardinality({i \in 1..Len(ret) : IsDefaultImport(ret[i])})
                    = CountCalls(drained, "add_default")
            /\ \A i \in 1..Len(ret) :
                    IsDefaultImport(ret[i]) => Len(ret[i].specifiers) = 1

\* Two add_default calls for one source, then a finished drain.
C2_Witness ==
    /\ Finished
    /\ \E S \in Sources : Len(Passed(drained, "add_default", S)) >= 2
    /\ Cardinality({i \in 1..Len(ret) : IsDefaultImport(ret[i])}) >= 2

\* C3 (as claimed): every add_require(S, x, true) call completes normally and
\* leaves the Require entry for S at index 0 of the order, also when a Require
\* entry for S existed before the call.
C3_RequireFrontAlwaysFirst ==
    (pc = "idle" /\ calls # <<>> /\ calls[Len(calls)].op = "add_require"
        /\ calls[Len(calls)].front) =>
        /\ panic = None
        /\ imports # <<>>
        /\ imports[1].key = ImportType_new("Require", calls[Len(calls)].source)

\* C4: add_require for a source Z that has no Require entry puts the new
\* entry first when front is true and last when front is false, and leaves
\* every other entry, and their order, as it was.
C4_FrontReordering ==
    [][\A Z \in Sources, x \in Specifiers, front \in BOOLEAN :
        (/\ add_require(Z, x, front)
         /\ pc = "idle"
         /\ get_index_of(imports, ImportType_new("Require", Z)) = 0)
        => LET new == [key |-> ImportType_new("Require", Z), names |-> <<x>>]
           IN /\ panic' = None
              /\ imports' = IF front THEN <<new>> \o imports
                                     ELSE Append(imports, new)]_vars

\* add_require(Z, x, true) for a new Z on a registry of two other entries.
C4_Witness ==
    /\ pc = "idle" /\ panic = None
    /\ Len(calls) = 3 /\ Len(imports) = 3
    /\ calls[3].op = "add_require" /\ calls[3].front
    /\ imports[1].key = ImportType_new("Require", calls[3].source)
    /\ imports[2].key # imports[3].key

\* The key a call asks for.
KeyOf(c) ==
    ImportType_new(CASE c.op = "add_import" -> "Import"
                     [] c.op = "add_default" -> "ImportDefault"
                     [] c.op = "add_require" -> "Require",
                   c.source)

\* The keys of `log` in the order they were first introduced: a default
\* import introduces an entry every time, the other two once per source.
RECURSIVE FirstIntroduced(_)
FirstIntroduced(log) ==
    IF log = <<>> THEN <<>>
    ELSE LET sofar == FirstIntroduced(SubSeq(log, 1, Len(log) - 1))
             k == KeyOf(log[Len(log)])
         IN IF k.kind # "ImportDefault" /\ \E i \in 1..Len(sofar) : sofar[i] = k
            THEN sofar
            ELSE Append(sofar, k)

NoFront(log) == \A i \in 1..Len(log) : ~log[i].front

\* The mechanism and source a statement was synthesized for.
KeyOfStatement(st) ==
    ImportType_new(IF IsRequire(st) THEN "Require"
                   ELSE IF IsNamedImport(st) THEN "Import"
                   ELSE "ImportDefault",
                   st.source)

\* C5: without front-reordering, the registry order and the order of the
\* statements a drain returns are the order in which the entries were first
\* introduced, whatever their mechanism and however many specifiers were
\* merged into them later.
C5_FirstIntroducedOrder ==
    /\ (pc = "idle" /\ NoFront(calls)) =>
            [i \in 1..Len(imports) |-> imports[i].key] = FirstIntroduced(calls)
    /\ (Finished /\ NoFront(drained)) =>
            [i \in 1..Len(ret) |-> KeyOfStatement(ret[i])] = FirstIntroduced(drained)

\* A merge into the first of two entries of different mechanisms, drained.
C5_Witness ==
    /\ Finished
    /\ NoFront(drained)
    /\ Len(drained) = 3 /\ Len(ret) = 2
    /\ KeyOf(drained[3]) = KeyOf(drained[1])
    /\ KeyOfStatement(ret[1]).kind # KeyOfStatement(ret[2]).kind
    /\ KeyOfStatement(ret[1]) = KeyOf(drained[1])

\* C6: a drain returns exactly one require declaration per source passed to
\* add_require, and it is bound to the first specifier added for that
\* source; later specifiers under the same key do not appear.
C6_RequireCollapse ==
    Finished =>
        \A S \in Sources :
            LET at == StatementsFor(ret, IsRequire, S)
                passed == Passed(drained, "add_require", S)
            IN /\ (passed # <<>>) <=> (at # {})
               /\ Cardinality(at) <= 1
               /\ \A i \in at :
                    /\ Len(ret[i].specifiers) = 1
                    /\ ret[i].specifiers[1].symbol_id = passed[1].symbol_id

\* add_require(S, a, false), add_require(S, b, false) with a # b, drained.
C6_Witness ==
    /\ Finished
    /\ \E S \in Sources :
        LET passed == Passed(drained, "add_require", S)
        IN /\ Len(passed) >= 2
           /\ passed[1] # passed[2]
           /\ \E i \in StatementsFor(ret, IsRequire, S) :
                ret[i].specifiers[1].symbol_id # passed[2].symbol_id

\* C7: get_import_statements returns one statement per entry the registry
\* held and leaves the registry empty; called again with no add in between
\* it returns the empty sequence.
C7_DestructiveDrain ==
    /\ Finished =>
            /\ imports = <<>>
            /\ Len(ret) = Len(snapshot)
    /\ (Finished /\ before = "get_import_statements") => ret = <<>>
    /\ pc = "draining" => imports = <<>>

\* A drain of a registry with two or more entries has returned.
C7_Witness ==
    /\ Finished
    /\ Len(snapshot) >= 2
    /\ Len(ret) = Len(snapshot)
    /\ imports = <<>>

\* A second get_import_statements right after a first one has returned.
C7_WitnessTwice ==
    Finished /\ before = "get_import_statements" /\ ret = <<>>

\* C8: requests of different mechanisms never share a statement: a drain
\* returns, for every source S, one statement if add_import(S, .) was called,
\* one if add_require(S, .) was called and one per add_default(S, .) call; and
\* add_import("lib", a), add_default("lib", b), add_require("cjs-mod", c, true)
\* drains to the require of c, the named import of a, the default import of b.
C8_MechanismsNeverMerge ==
    /\ Finished =>
        \A S \in Sources :
            /\ Cardinality(StatementsFor(ret, IsNamedImport, S))
                = (IF Passed(drained, "add_import", S) = <<>> THEN 0 ELSE 1)
            /\ Cardinality(StatementsFor(ret, IsRequire, S))
                = (IF Passed(drained, "add_require", S) = <<>> THEN 0 ELSE 1)
            /\ Cardinality(StatementsFor(ret, IsDefaultImport, S))
                = Len(Passed(drained, "add_default", S))
    /\ \A a \in Specifiers, b \in Specifiers, c \in Specifiers :
        (Finished /\ drained = << Call("add_import", "lib", a, FALSE),
                                  Call("add_default", "lib", b, FALSE),
                                  Call("add_require", "cjs-mod", c, TRUE) >>)
        => /\ Len(ret) = 3
           /\ IsRequire(ret[1]) /\ ret[1].source = "cjs-mod"
           /\ ret[1].specifiers[1].symbol_id = c.symbol_id
           /\ IsNamedImport(ret[2]) /\ ret[2].source = "lib"
           /\ Len(ret[2].specifiers) = 1
           /\ ret[2].specifiers[1].symbol_id = a.symbol_id
           /\ IsDefaultImport(ret[3]) /\ ret[3].source = "lib"
           /\ Len(ret[3].specifiers) = 1
           /\ ret[3].specifiers[1].symbol_id = b.symbol_id

\* The end-to-end scenario has been drained.
C8_Witness ==
    /\ Finished
    /\ Len(drained) = 3
    /\ drained[1].op = "add_import" /\ drained[1].source = "lib"
    /\ drained[2].op = "add_default" /\ drained[2].source = "lib"
    /\ drained[3].op = "add_require" /\ drained[3].source = "cjs-mod"
    /\ drained[3].front
    /\ drained[1].import # drained[2].import
    /\ Len(ret) = 3

\* Some add_* call is made.
AnyAdd ==
    \/ \E source \in Sources, import \in Specifiers : add_default(source, import)
    \/ \E source \in Sources, import \in Specifiers : add_import(source, import)
    \/ \E source \in Sources, import \in Specifiers, front \in BOOLEAN :
            add_require(source, import, front)

\* C9: an add_* call made while get_import_statements holds the registry's
\* mutable borrow panics on the borrow and changes neither the registry nor
\* the entries being drained nor the statements returned.
C9_ReentrantAddPanics ==
    [][(borrow = "WRITING" /\ AnyAdd) =>
            /\ panic' = Some("already borrowed")
            /\ imports' = imports
            /\ drain' = drain
            /\ ret' = ret
            /\ calls' = calls]_vars

\* An add_* call was made inside a drain of a non-empty registry.
C9_Witness ==
    /\ pc = "draining"
    /\ borrow = "WRITING"
    /\ drain # <<>>
    /\ panic = Some("already borrowed")

\* C10: every entry of the registry, and every entry being drained, has at
\* least one specifier, so get_require's unwrap never panics.
C10_NonEmptyLists ==
    /\ \A i \in 1..Len(imports) : imports[i].names # <<>>
    /\ \A i \in 1..Len(drain) : drain[i].names # <<>>
    /\ panic # Some("unwrap on None")

\* A drain has synthesized a require declaration.
C10_Witness ==
    /\ Finished
    /\ \E i \in 1..Len(ret) : IsRequire(ret[i])

\* What one add_* call does to a registry that is not borrowed.
ReplayCall(map, c) ==
    CASE c.op = "add_default" -> add_default_map(map, c.source, c.import)
      [] c.op = "add_import" -> add_import_map(map, c.source, c.import)
      [] c.op = "add_require" ->
            LET pushed == add_require_map(map, c.source, c.import)
            IN IF c.front /\ move_index_in_bounds(pushed, Len(map), 0)
               THEN move_index(pushed, Len(map), 0)
               ELSE pushed

\* The registry that the calls of `log` build on a new ModuleImports.
RECURSIVE Replay(_)
Replay(log) ==
    IF log = <<>> THEN <<>>
    ELSE ReplayCall(Replay(SubSeq(log, 1, Len(log) - 1)), log[Len(log)])

\* C11: add_* calls after a drain start from an empty registry: the registry
\* is what the calls made since the last drain build on a new ModuleImports,
\* and a drain returns the statements of that registry, whatever was added
\* and drained before.
C11_FreshAfterDrain ==
    /\ (pc = "idle" /\ panic = None) => imports = Replay(calls)
    /\ Finished => ret = statements(Replay(drained), require_binding)

\* A, get_import_statements, one add, get_import_statements, with A's drain
\* returning statements and the second drain returning the one add's.
C11_Witness ==
    /\ Finished
    /\ prior
    /\ Len(drained) = 1
    /\ Len(ret) = 1

\* C12 (as claimed): of two get_import_statements calls in succession the
\* first returns a non-empty sequence and the second an empty one, whatever
\* the registry held.
C12_FirstNonEmptySecondEmpty ==
    /\ (Finished /\ before # "get_import_statements") => ret # <<>>
    /\ (Finished /\ before = "get_import_statements") => ret = <<>>

\* C12 (amended): of two get_import_statements calls in succession the first
\* returns a non-empty sequence exactly when an add_* call was made since
\* creation or the last drain, and the second returns an empty one.
C12_FirstDrainsSecondEmpty ==
    /\ (Finished /\ before # "get_import_statements") =>
            (ret # <<>> <=> drained # <<>>)
    /\ (Finished /\ before = "get_import_statements") =>
            (ret = <<>> /\ drained = <<>>)

\* A drain that returned statements, directly followed by a second drain.
C12_Witness ==
    /\ Finished
    /\ before = "get_import_statements"
    /\ prior
    /\ ret = <<>>

HasRequire(map) == \E i \in 1..Len(map) : map[i].key.kind = "Require"

\* C13: a drain that reaches a Require entry while `require` has no root
\* binding fails fatally and returns nothing; every require declaration a
\* drain returns calls the resolved root binding of `require`.
C13_UnresolvedRequireIsFatal ==
    /\ (pc = "draining" /\ HasRequire(drain) /\ require_binding = None
            /\ panic # None) =>
            (panic \in {Some("unresolved binding"), Some("already borrowed")}
                /\ ret = <<>>)
    /\ (Finished /\ HasRequire(snapshot)) => require_binding # None
    /\ Finished =>
        \A i \in 1..Len(ret) :
            IsRequire(ret[i]) =>
                /\ ret[i].callee # None
                /\ ret[i].callee[1].symbol_id # None
                /\ ret[i].callee[1].symbol_id = require_binding

\* A drain met a Require entry with no root binding of `require` and failed.
C13_Witness ==
    /\ pc = "draining"
    /\ HasRequire(drain)
    /\ require_binding = None
    /\ panic = Some("unresolved binding")
    /\ ret = <<>>

\* Every import key callers can ask for.
Keys == {ImportType_new(kind, source) : kind \in ImportKind, source \in Sources}

\* C14: two import keys are equal exactly when neither is a DefaultImport key
\* and their mechanisms and sources are equal; so equality is symmetric, a
\* NamedImport or Require key equals itself and a DefaultImport key equals no
\* key, itself included.  It holds of every key, those stored in the registry
\* among them.
C14_KeyEquality ==
    /\ \A k1 \in Keys, k2 \in Keys :
        /\ ImportType_eq(k1, k2) <=>
            (/\ k1.kind # "ImportDefault" /\ k2.kind # "ImportDefault"
             /\ k1.kind = k2.kind /\ k1.source = k2.source)
        /\ ImportType_eq(k1, k2) <=> ImportType_eq(k2, k1)
    /\ \A k \in Keys : ImportType_eq(k, k) <=> k.kind # "ImportDefault"
    /\ \A i \in 1..Len(imports) :
        /\ imports[i].key \in Keys
        /\ ImportType_eq(imports[i].key, imports[i].key)
                <=> imports[i].key.kind # "ImportDefault"

\* The registry holds two DefaultImport keys for one source, which compare
\* unequal, next to a key that equals itself.
C14_Witness ==
    /\ pc = "idle" /\ panic = None
    /\ \E i \in 1..Len(imports), j \in 1..Len(imports) :
        /\ i # j
        /\ imports[i].key.kind = "ImportDefault"
        /\ imports[i].key.kind = imports[j].key.kind
        /\ imports[i].key.source = imports[j].key.source
        /\ ~ImportType_eq(imports[i].key, imports[j].key)
    /\ \E i \in 1..Len(imports) : ImportType_eq(imports[i].key, imports[i].key)

\* C15 (as claimed): the variable a require declaration declares is named
\* after the first specifier's local alias when it has one and after its
\* imported name otherwise.
C15_RequireNamedLocalOrImported ==
    Finished =>
        \A S \in Sources :
            \A i \in StatementsFor(ret, IsRequire, S) :
                LET name == Passed(drained, "add_require", S)[1]
                IN ret[i].specifiers[1].local
                        = unwrap_or_else(name.local, name.imported)

\* C15 (amended): a require declaration is `var <imported> = require(<source>)`:
\* one declarator, named after the first specifier's imported name whether or
\* not it has a local alias, bound to the first specifier's identity, and
\* initialised by a call of `require` with the source as its argument.
C15_RequireNamedImported ==
    Finished =>
        \A S \in Sources :
            \A i \in StatementsFor(ret, IsRequire, S) :
                LET name == Passed(drained, "add_require", S)[1]
                IN /\ Len(ret[i].specifiers) = 1
                   /\ ret[i].specifiers[1].kind = "VariableDeclarator"
                   /\ ret[i].specifiers[1].local = name.imported
                   /\ ret[i].specifiers[1].symbol_id = name.symbol_id
                   /\ ret[i].callee # None
                   /\ ret[i].callee[1].name = "require"
                   /\ ret[i].source = S

\* A require declaration was returned for a specifier with a local alias.
C15_Witness ==
    /\ Finished
    /\ \E S \in Sources :
        /\ StatementsFor(ret, IsRequire, S) # {}
        /\ Passed(drained, "add_require", S)[1].local # None

\* The statements of `out` that satisfy Is(_) and name `source`, in order.
SelectStatements(out, Is(_), source) ==
    LET hit(st) == Is(st) /\ st.source = source
    IN SelectSeq(out, hit)

\* C16: clause j of the named-import statement for S has the imported name
\* of the j-th specifier passed to add_import(S, .), binds its local alias,
\* or its imported name when it has none, and carries its identity; the k-th
\* default-import statement for S binds the imported name of the k-th
\* specifier passed to add_default(S, .), never its alias, to its identity.
C16_ClausesFollowRecords ==
    Finished =>
        \A S \in Sources :
            /\ \A i \in StatementsFor(ret, IsNamedImport, S) :
                LET passed == Passed(drained, "add_import", S)
                IN /\ Len(ret[i].specifiers) = Len(passed)
                   /\ \A j \in 1..Len(passed) :
                        /\ ret[i].specifiers[j].imported = Some(passed[j].imported)
                        /\ ret[i].specifiers[j].local =
                            (IF passed[j].local # None THEN passed[j].local[1]
                                                       ELSE passed[j].imported)
                        /\ ret[i].specifiers[j].symbol_id = passed[j].symbol_id
            /\ LET defaults == SelectStatements(ret, IsDefaultImport, S)
                   passed == Passed(drained, "add_default", S)
               IN /\ Len(defaults) = Len(passed)
                  /\ \A k \in 1..Len(passed) :
                        /\ Len(defaults[k].specifiers) = 1
                        /\ defaults[k].specifiers[1].local = passed[k].imported
                        /\ defaults[k].specifiers[1].symbol_id = passed[k].symbol_id

\* A named import with an aliased and an unaliased clause and a default
\* import of an aliased specifier were returned.
C16_Witness ==
    /\ Finished
    /\ \E S \in Sources :
        LET passed == Passed(drained, "add_import", S)
        IN /\ \E j \in 1..Len(passed) : passed[j].local # None
           /\ \E j \in 1..Len(passed) : passed[j].local = None
           /\ StatementsFor(ret, IsNamedImport, S) # {}
    /\ \E S \in Sources :
        LET passed == Passed(drained, "add_default", S)
        IN /\ passed # <<>>
           /\ passed[1].local # None
           /\ StatementsFor(ret, IsDefaultImport, S) # {}

\* Positions of the entries of `map` with mechanism `kind` and source S.
EntriesFor(map, kind, S) ==
    {i \in 1..Len(map) : map[i].key.kind = kind /\ map[i].key.source = S}

\* C17: the registry, and the entries being drained, hold at most one
\* NamedImport entry and at most one Require entry per source; only
\* DefaultImport entries repeat a (mechanism, source) pair.
C17_KeyUniqueness ==
    \A S \in Sources :
        /\ Cardinality(EntriesFor(imports, "Import", S)) <= 1
        /\ Cardinality(EntriesFor(imports, "Require", S)) <= 1
        /\ Cardinality(EntriesFor(drain, "Import", S)) <= 1
        /\ Cardinality(EntriesFor(drain, "Require", S)) <= 1

\* Two add_import calls, or two add_require calls, for one source left one
\* entry, next to a DefaultImport entry for the same source.
C17_Witness ==
    /\ pc = "idle" /\ panic = None
    /\ \E S \in Sources :
        \/ /\ Len(Passed(calls, "add_import", S)) >= 2
           /\ Cardinality(EntriesFor(imports, "Import", S)) = 1
           /\ EntriesFor(imports, "ImportDefault", S) # {}
        \/ /\ Len(Passed(calls, "add_require", S)) >= 2
           /\ Cardinality(EntriesFor(imports, "Require", S)) = 1
           /\ EntriesFor(imports, "ImportDefault", S) # {}

\* `new` is `old` with x added under `key`: either one entry [key, <<x>>]
\* appended at the end, or x appended to the list of the one entry holding
\* `key`; every other entry keeps its key, position and list.
OneEntryChanged(old, new, key, x) ==
    \/ /\ Len(new) = Len(old) + 1
       /\ SubSeq(new, 1, Len(old)) = old
       /\ new[Len(new)] = [key |-> key, names |-> <<x>>]
    \/ /\ Len(new) = Len(old)
       /\ \E i \in 1..Len(old) :
            /\ old[i].key = key
            /\ new[i].key = key
            /\ new[i].names = Append(old[i].names, x)
            /\ \A j \in 1..Len(old) : j # i => new[j] = old[j]

\* C18: add_default, add_import and add_require with front = false change
\* exactly one entry, the one created at the end or the one merged into,
\* whose list grows by one specifier at its end; add_require with
\* front = true for a source without a Require entry leaves every other
\* entry's key and list as they were.
C18_AddFrame ==
    [][/\ \A S \in Sources, x \in Specifiers :
            (add_default(S, x) /\ pc = "idle") =>
                /\ OneEntryChanged(imports, imports',
                                   ImportType_new("ImportDefault", S), x)
                /\ Len(imports') = Len(imports) + 1
       /\ \A S \in Sources, x \in Specifiers :
            (add_import(S, x) /\ pc = "idle") =>
                OneEntryChanged(imports, imports', ImportType_new("Import", S), x)
       /\ \A S \in Sources, x \in Specifiers :
            (add_require(S, x, FALSE) /\ pc = "idle") =>
                OneEntryChanged(imports, imports', ImportType_new("Require", S), x)
       /\ \A S \in Sources, x \in Specifiers :
            (/\ add_require(S, x, TRUE)
             /\ pc = "idle"
             /\ EntriesFor(imports, "Require", S) = {}) =>
                /\ Len(imports') = Len(imports) + 1
                /\ \A j \in 1..Len(imports) : imports'[j + 1] = imports[j]
      ]_vars

\* A specifier was merged into the first of two entries.
C18_Witness ==
    /\ pc = "idle" /\ panic = None
    /\ Len(calls) = 3
    /\ ~calls[3].front
    /\ Len(imports) = 2
    /\ KeyOf(calls[3]) = imports[1].key
    /\ Len(imports[1].names) = 2
    /\ imports[1].names[1] # imports[1].names[2]
    /\ imports[1].names[2] = calls[3].import

\* Sources that `op` was called for in `log`.
SourcesOf(log, op) == {S \in Sources : Passed(log, op, S) # <<>>}

\* Number of times `op` was called with source S and specifier x in `log`.
CountPassed(log, op, S, x) ==
    Cardinality({i \in 1..Len(log) :
        log[i].op = op /\ log[i].source = S /\ log[i].import = x})

\* The clauses of the statements of `out` at positions `at` that carry the
\* identity of x.
ClausesOf(out, at, x) ==
    {p \in at \X (1..MaxAdds + 1) :
        /\ p[2] <= Len(out[p[1]].specifiers)
        /\ out[p[1]].specifiers[p[2]].symbol_id = x.symbol_id}

\* C19: a drain returns one statement per source passed to add_import, one
\* per source passed to add_require and one per add_default call; every
\* specifier passed to add_import or add_default appears once per call, the
\* former in the one named-import statement of its source, the latter in a
\* default-import statement of its own.
C19_Counting ==
    Finished =>
        /\ Len(ret) = Cardinality(SourcesOf(drained, "add_import"))
                        + Cardinality(SourcesOf(drained, "add_require"))
                        + CountCalls(drained, "add_default")
        /\ \A S \in Sources, x \in Specifiers :
            /\ Cardinality(ClausesOf(ret, StatementsFor(ret, IsNamedImport, S), x))
                    = CountPassed(drained, "add_import", S, x)
            /\ Cardinality(ClausesOf(ret, StatementsFor(ret, IsDefaultImport, S), x))
                    = CountPassed(drained, "add_default", S, x)
            /\ Cardinality({i \in StatementsFor(ret, IsDefaultImport, S) :
                                ClausesOf(ret, {i}, x) # {}})
                    = CountPassed(drained, "add_default", S, x)

\* Three calls drained into two statements: a merge and a default import.
C19_Witness ==
    /\ Finished
    /\ Len(drained) = 3
    /\ Len(ret) = 2
    /\ CountCalls(drained, "add_import") = 2
    /\ CountCalls(drained, "add_default") = 1

====
